---- MODULE Spec2Model ----
(***************************************************************************)
(* The compliance analysis engine of app/compliance_engine.py:             *)
(* ComplianceEngine.load_all_rules, chunk_text, check_pattern_compliance,  *)
(* llm_compliance_check, add_document_to_vector_db, analyze_document and   *)
(* generate_compliance_report.                                             *)
(*                                                                         *)
(* A Python str is a sequence of characters (one-character strings); a     *)
(* float confidence c is the integer 100*c.                                *)
(***************************************************************************)
EXTENDS Integers, Sequences, FiniteSets, TLC

VARIABLES
  openai_client,     \* whether self.openai_client is set
  anthropic_client,  \* whether self.anthropic_client is set
  rules,             \* self.rules: the rule sets in the order of their keys
  collection,        \* the entries of the ChromaDB collection
  pc,                \* where the analyze_document call stands
  frame,             \* the arguments and locals of the analyze_document call
  results,           \* the local results of analyze_document
  last,              \* the last evaluation of a rule: its inputs and outcome
  calls,             \* the analyze_document calls made so far
  chunker,           \* a chunk_text call on its own
  matcher,           \* a check_pattern_compliance call on its own
  reporter,          \* a generate_compliance_report call
  loader,            \* a load_all_rules call on its own
  indexers,          \* the add_document_to_vector_db calls of concurrent callers
  prompter           \* two llm_compliance_check calls compared by their prompts

engine_vars ==
  <<openai_client, anthropic_client, rules, collection, pc, frame, results, last, calls>>

vars == <<engine_vars, chunker, matcher, reporter, loader, indexers, prompter>>

Min(a, b) == IF a <= b THEN a ELSE b

Max(a, b) == IF a >= b THEN a ELSE b

(***************************************************************************)
(* Python string primitives.                                               *)
(***************************************************************************)

\* s[a:b] of Python: negative indices count from the end, both clamp.
PySlice(s, a, b) ==
  LET n  == Len(s)
      lo == IF a < 0 THEN Max(a + n, 0) ELSE Min(a, n)
      hi == IF b < 0 THEN Max(b + n, 0) ELSE Min(b, n)
  IN  IF lo >= hi THEN <<>> ELSE SubSeq(s, lo + 1, hi)

\* n copies of the character c
Rep(c, n) == [i \in 1..n |-> c]

\* str.lower() of one character: U+0130 (named "I_dot" here) lowers to the two
\* characters "i" and U+0307 (named "dot"); every other character to one
lower_char(c) ==
  CASE c = "S" -> <<"s">>
    [] c = "N" -> <<"n">>
    [] c = "I_dot" -> <<"i", "dot">>
    [] OTHER -> <<c>>

\* the lowered characters of s[a..b], in order
RECURSIVE lower_range(_, _, _)
lower_range(s, a, b) ==
  IF a > b THEN <<>>
  ELSE IF a = b THEN lower_char(s[a])
  ELSE LET m == (a + b) \div 2
       IN  lower_range(s, a, m) \o lower_range(s, m + 1, b)

\* s.lower()
str_lower(s) == lower_range(s, 1, Len(s))

\* h.find(n): the lowest offset at which n occurs in h, -1 when there is none
str_find(h, n) ==
  LET at == {i \in 0..(Len(h) - Len(n)) : SubSeq(h, i + 1, i + Len(n)) = n}
  IN  IF at = {} THEN -1 ELSE CHOOSE i \in at : \A j \in at : i <= j

\* n in h
str_in(n, h) == \E i \in 0..(Len(h) - Len(n)) : SubSeq(h, i + 1, i + Len(n)) = n

\* dict.get(key, default) on a rule; rule.has is the set of keys present
rule_get(rule, key, default) == IF key \in rule.has THEN rule[key] ELSE default

(***************************************************************************)
(* check_pattern_compliance                                                *)
(***************************************************************************)

ContextRadius == 100

\* lines 105-110: the evidence entry of a pattern that matched
pattern_evidence(content, pattern) ==
  LET content_lower == str_lower(content)
      start         == str_find(content_lower, str_lower(pattern))
      context_start == Max(0, start - ContextRadius)
      context_end   == Min(Len(content), start + Len(pattern) + ContextRadius)
      context       == PySlice(content, context_start, context_end)
  IN  <<"Found '">> \o pattern \o <<"' in context: ...">> \o context \o <<"...">>

\* pattern_loop comparing case-sensitively
RECURSIVE pattern_loop_case_sensitive(_, _, _, _)
pattern_loop_case_sensitive(content, patterns, k, violations) ==
  IF k > Len(patterns) THEN violations
  ELSE pattern_loop_case_sensitive(content, patterns, k + 1,
         IF str_in(patterns[k], content)
         THEN Append(violations, pattern_evidence(content, patterns[k]))
         ELSE violations)

\* lines 101-110: the loop over the patterns, from pattern k on
RECURSIVE pattern_loop(_, _, _, _)
pattern_loop(content, patterns, k, violations) ==
  IF k > Len(patterns) THEN violations
  ELSE pattern_loop(content, patterns, k + 1,
         IF str_in(str_lower(patterns[k]), str_lower(content))
         THEN Append(violations, pattern_evidence(content, patterns[k]))
         ELSE violations)

check_pattern_compliance(content, rule) ==
  LET patterns   == rule_get(rule, "patterns", <<>>)
      violations == pattern_loop(content, patterns, 1, <<>>)
  IN  [hit |-> Len(violations) > 0, evidence |-> violations]

(***************************************************************************)
(* Python values that come out of json.loads.  A value is a record         *)
(* [t, b, n, s, l]: t is its type, and b, n, s or l carries a bool, a       *)
(* number (times 100), a str or a list of str.  t = "absent" marks a key a *)
(* dict does not have.                                                     *)
(***************************************************************************)

PyBool(b) == [t |-> "bool", b |-> b, n |-> 0, s |-> <<>>, l |-> <<>>]

PyNum(n) == [t |-> "num", b |-> FALSE, n |-> n, s |-> <<>>, l |-> <<>>]

PyStr(s) == [t |-> "str", b |-> FALSE, n |-> 0, s |-> s, l |-> <<>>]

PyList(l) == [t |-> "list", b |-> FALSE, n |-> 0, s |-> <<>>, l |-> l]

PyNone == [t |-> "none", b |-> FALSE, n |-> 0, s |-> <<>>, l |-> <<>>]

Absent == [t |-> "absent", b |-> FALSE, n |-> 0, s |-> <<>>, l |-> <<>>]

\* a dict over the four keys of a verdict
Dict(violation, confidence, evidence, explanation) ==
  [violation |-> violation, confidence |-> confidence, evidence |-> evidence,
   explanation |-> explanation]

EmptyDict == Dict(Absent, Absent, Absent, Absent)

\* what json.loads returns: a dict, or a value that is not a dict
AsDict(d) == [kind |-> "dict", d |-> d, v |-> PyNone]

AsValue(v) == [kind |-> "value", d |-> EmptyDict, v |-> v]

\* d.get(key, default)
dict_get(d, key, default) == IF d[key].t = "absent" THEN default ELSE d[key]

\* bool(v)
truthy(v) ==
  CASE v.t = "bool" -> v.b
    [] v.t = "num"  -> v.n # 0
    [] v.t = "str"  -> v.s # <<>>
    [] v.t = "list" -> v.l # <<>>
    [] OTHER        -> FALSE

\* a or b
py_or(a, b) == IF truthy(a) THEN a ELSE b

\* whether v can be ordered against a float: numbers and bools can
is_number(v) == v.t \in {"num", "bool"}

\* the number a bool or a number compares as (True is 1.0)
as_number(v) == IF v.t = "bool" THEN (IF v.b THEN 100 ELSE 0) ELSE v.n

\* max(a, b) keeping b
py_max_second(a, b) == b

\* max(a, b) of two orderable values: b only when it is strictly greater
py_max(a, b) == IF as_number(b) > as_number(a) THEN b ELSE a

(***************************************************************************)
(* JSON texts.  A text is a sequence of tokens.                            *)
(***************************************************************************)

NumberToken(n) ==
  CASE n = 0   -> "0.0"
    [] n = 50  -> "0.5"
    [] n = 90  -> "0.9"
    [] n = 100 -> "1"
    [] n = 150 -> "1.5"
    [] n = 42  -> "0.42"
    [] OTHER   -> "0"

RECURSIVE join_strings(_, _)
join_strings(l, k) ==
  IF k > Len(l) THEN <<>>
  ELSE (IF k > 1 THEN <<",">> ELSE <<>>) \o <<"\"">> \o l[k] \o <<"\"">>
       \o join_strings(l, k + 1)

\* the JSON text of a value
value_text(v) ==
  CASE v.t = "bool" -> IF v.b THEN <<"true">> ELSE <<"false">>
    [] v.t = "num"  -> <<NumberToken(v.n)>>
    [] v.t = "str"  -> <<"\"">> \o v.s \o <<"\"">>
    [] v.t = "list" -> <<"[">> \o join_strings(v.l, 1) \o <<"]">>
    [] OTHER        -> <<"null">>

VerdictKeys == <<"violation", "confidence", "evidence", "explanation">>

RECURSIVE members_text(_, _, _)
members_text(d, k, first) ==
  IF k > Len(VerdictKeys) THEN <<>>
  ELSE IF d[VerdictKeys[k]].t = "absent" THEN members_text(d, k + 1, first)
  ELSE (IF first THEN <<>> ELSE <<",">>)
       \o <<"\"", VerdictKeys[k], "\"", ":">> \o value_text(d[VerdictKeys[k]])
       \o members_text(d, k + 1, FALSE)

\* the JSON text of what json.loads can return
json_text(pv) ==
  IF pv.kind = "dict" THEN <<"{">> \o members_text(pv.d, 1, TRUE) \o <<"}">>
  ELSE value_text(pv.v)

\* the JSON values the backend texts of the model encode
JsonValues ==
  {AsDict(Dict(PyBool(TRUE), PyNum(90), PyList(<<<<"quote">>>>), PyStr(<<"because">>))),
   AsDict(Dict(PyBool(FALSE), PyNum(50), PyList(<<>>), PyStr(<<"because">>))),
   AsDict(Dict(PyBool(FALSE), PyNum(150), Absent, Absent)),
   AsDict(Dict(PyBool(TRUE), Absent, Absent, Absent)),
   AsDict(EmptyDict),
   AsDict(Dict(PyStr(<<"yes">>), PyNum(90), Absent, PyStr(<<"because">>))),
   AsDict(Dict(PyNone, PyNum(0), PyList(<<>>), Absent)),
   AsDict(Dict(PyNum(100), PyBool(TRUE), Absent, Absent)),
   AsDict(Dict(PyBool(TRUE), PyStr(<<"high">>), Absent, Absent)),
   AsDict(Dict(PyBool(FALSE), PyNone, Absent, Absent)),
   AsValue(PyNum(42)),
   AsValue(PyList(<<>>)),
   AsValue(PyNone)}

\* texts that are not JSON: prose, prose around JSON, JSON cut short, nothing
NotJsonTexts ==
  {<<"The document violates the rule.">>,
   <<"Here is the analysis: ", "{", "\"", "violation", "\"", ":", "true", "}">>,
   <<"{", "\"", "violation", "\"", ":", "true">>,
   <<>>}

BackendTexts == {json_text(pv) : pv \in JsonValues} \cup NotJsonTexts

\* json.loads(text): the value text encodes, JSONDecodeError when it encodes none
json_loads(text) ==
  IF \E pv \in JsonValues : json_text(pv) = text
  THEN [ok |-> TRUE, value |-> CHOOSE pv \in JsonValues : json_text(pv) = text]
  ELSE [ok |-> FALSE, value |-> AsValue(PyNone)]

(***************************************************************************)
(* llm_compliance_check                                                    *)
(***************************************************************************)

PromptLimit == 3000

DefaultPrompt == <<"Analyze this document for compliance violations.">>

\* lines 116-139 with the whole content embedded
build_prompt_untruncated(content, rule) ==
  <<"Compliance Analysis Request: Rule: ">> \o rule.name
  \o <<"Description: ">> \o rule.description
  \o <<"Analysis Prompt: ">> \o rule_get(rule, "llm_prompt", DefaultPrompt)
  \o <<"Document Content: ">> \o content
  \o <<"  # Limit content to avoid token limits">>
  \o <<"Please analyze the document and respond with: ... Format your response as JSON">>

\* lines 116-139, for a rule that has a name and a description
build_prompt(content, rule) ==
  <<"Compliance Analysis Request: Rule: ">> \o rule.name
  \o <<"Description: ">> \o rule.description
  \o <<"Analysis Prompt: ">> \o rule_get(rule, "llm_prompt", DefaultPrompt)
  \o <<"Document Content: ">> \o PySlice(content, 0, PromptLimit)
  \o <<"  # Limit content to avoid token limits">>
  \o <<"Please analyze the document and respond with: ... Format your response as JSON">>

\* lines 157-162 flagging the document as the parse fallback does
no_api_verdict_flagging ==
  AsDict(Dict(PyBool(TRUE), PyNum(50), PyList(<<>>), PyStr(<<"No LLM API configured">>)))

\* lines 157-162
no_api_verdict ==
  AsDict(Dict(PyBool(FALSE), PyNum(0), PyList(<<>>), PyStr(<<"No LLM API configured">>)))

\* the fallback of lines 168-173 flagging nothing
parse_failure_verdict_silent(result) ==
  AsDict(Dict(PyBool(FALSE), PyNum(0), PyList(<<>>), PyStr(result)))

\* lines 168-173
parse_failure_verdict(result) ==
  AsDict(Dict(PyBool(TRUE), PyNum(50), PyList(<<>>), PyStr(result)))

\* the handler of lines 175-181 flagging the document as the parse fallback does
backend_failure_verdict_flagging(cause) ==
  AsDict(Dict(PyBool(TRUE), PyNum(50), PyList(<<>>),
              PyStr(<<"LLM analysis failed: ">> \o cause)))

\* lines 175-181; cause is str(e)
backend_failure_verdict(cause) ==
  AsDict(Dict(PyBool(FALSE), PyNum(0), PyList(<<>>),
              PyStr(<<"LLM analysis failed: ">> \o cause)))

\* str(e) of the TypeError json.loads raises on None
NoneContentCause == <<"the JSON object must be str, bytes or bytearray, not NoneType">>

\* what a backend does with a prompt: it throws, it answers with a text, or it
\* answers with no text at all (content None)
Throws(cause) == [kind |-> "throw", cause |-> cause, text |-> <<>>]

Answers(text) == [kind |-> "text", cause |-> <<>>, text |-> text]

AnswersNone == [kind |-> "none", cause |-> <<>>, text |-> <<>>]

Causes == {<<"Connection timed out">>, <<"Rate limit exceeded">>}

Responses ==
  {Throws(c) : c \in Causes} \cup {Answers(t) : t \in BackendTexts} \cup {AnswersNone}

\* lines 143-148 / 150-155 and 164-173, inside the try of line 141: the call
\* of the backend and the parsing of its answer
call_backend(response) ==
  CASE response.kind = "throw" -> backend_failure_verdict(response.cause)
    [] response.kind = "none"  -> backend_failure_verdict(NoneContentCause)
    [] OTHER ->
         LET parsed == json_loads(response.text)
         IN  IF parsed.ok THEN parsed.value ELSE parse_failure_verdict(response.text)

\* lines 142-156 without the elif branch
chosen_backend_openai_only(openai, anthropic) ==
  IF openai THEN "openai" ELSE "none"

\* the backend lines 142-156 choose: "openai" before "anthropic"
chosen_backend(openai, anthropic) ==
  IF openai THEN "openai" ELSE IF anthropic THEN "anthropic" ELSE "none"

\* lines 114-181.  openai and anthropic tell whether self.openai_client and
\* self.anthropic_client are set; response is what the chosen backend does.
\* exc is the exception that leaves the call ("none": it returns value), sent
\* the backends that received the prompt.
llm_compliance_check(content, rule, openai, anthropic, response) ==
  IF ~({"name", "description"} \subseteq rule.has)
  THEN [exc |-> "KeyError", value |-> AsValue(PyNone), sent |-> <<>>]
  ELSE LET backend == chosen_backend(openai, anthropic)
       IN  IF backend = "none"
           THEN [exc |-> "none", value |-> no_api_verdict, sent |-> <<>>]
           ELSE [exc |-> "none", value |-> call_backend(response),
                 sent |-> <<[backend |-> backend,
                             prompt |-> build_prompt(content, rule)]>>]

(***************************************************************************)
(* The verdict of one rule, lines 201-229.                                 *)
(***************************************************************************)

PatternFloor == 80

NoVerdict ==
  [document_id |-> "", rule_type |-> "", rule_id |-> "", rule_name |-> <<>>,
   violation_type |-> <<>>, severity |-> "", pattern_violation |-> FALSE,
   pattern_evidence |-> <<>>, llm_violation |-> PyNone, llm_confidence |-> PyNone,
   llm_evidence |-> PyNone, llm_explanation |-> PyNone,
   overall_violation |-> PyNone, confidence_score |-> PyNone]

\* lines 208-227 with a confidence that looks at the index
build_verdict_reading_index(doc_id, rule_type, rule, pattern, llm_result) ==
  LET d     == llm_result.d
      floor == PyNum(IF pattern.hit \/ collection # {} THEN PatternFloor ELSE 0)
  IN  [document_id       |-> doc_id,
       rule_type         |-> rule_type,
       rule_id           |-> rule.id,
       rule_name         |-> rule.name,
       violation_type    |-> rule.description,
       severity          |-> rule_get(rule, "severity", "MEDIUM"),
       pattern_violation |-> pattern.hit,
       pattern_evidence  |-> pattern.evidence,
       llm_violation     |-> dict_get(d, "violation", PyBool(FALSE)),
       llm_confidence    |-> dict_get(d, "confidence", PyNum(0)),
       llm_evidence      |-> dict_get(d, "evidence", PyList(<<>>)),
       llm_explanation   |-> dict_get(d, "explanation", PyStr(<<>>)),
       overall_violation |-> py_or(PyBool(pattern.hit),
                                   dict_get(d, "violation", PyBool(FALSE))),
       confidence_score  |-> py_max(floor, dict_get(d, "confidence", PyNum(0)))]

\* lines 208-227, for a dict llm_result whose confidence max() can order;
\* created_at, the time of the call, is left out
build_verdict(doc_id, rule_type, rule, pattern, llm_result) ==
  LET d     == llm_result.d
      floor == PyNum(IF pattern.hit THEN PatternFloor ELSE 0)
  IN  [document_id       |-> doc_id,
       rule_type         |-> rule_type,
       rule_id           |-> rule.id,
       rule_name         |-> rule.name,
       violation_type    |-> rule.description,
       severity          |-> rule_get(rule, "severity", "MEDIUM"),
       pattern_violation |-> pattern.hit,
       pattern_evidence  |-> pattern.evidence,
       llm_violation     |-> dict_get(d, "violation", PyBool(FALSE)),
       llm_confidence    |-> dict_get(d, "confidence", PyNum(0)),
       llm_evidence      |-> dict_get(d, "evidence", PyList(<<>>)),
       llm_explanation   |-> dict_get(d, "explanation", PyStr(<<>>)),
       overall_violation |-> py_or(PyBool(pattern.hit),
                                   dict_get(d, "violation", PyBool(FALSE))),
       confidence_score  |-> py_max(floor, dict_get(d, "confidence", PyNum(0)))]

\* lines 201-229: the body of the loop over the rules.  exc is the exception
\* that leaves it: the KeyError of the prompt or of rule["id"], the
\* AttributeError of .get on a value that is not a dict, the TypeError of
\* max() on a confidence that cannot be ordered against a float.
evaluate_rule(doc_id, content, rule_type, rule, openai, anthropic, response) ==
  LET pattern == check_pattern_compliance(content, rule)
      llm     == llm_compliance_check(content, rule, openai, anthropic, response)
      exc     == IF llm.exc # "none" THEN llm.exc
                 ELSE IF "id" \notin rule.has THEN "KeyError"
                 ELSE IF llm.value.kind # "dict" THEN "AttributeError"
                 ELSE IF ~is_number(dict_get(llm.value.d, "confidence", PyNum(0)))
                      THEN "TypeError"
                 ELSE "none"
  IN  [exc     |-> exc,
       llm     |-> llm,
       verdict |-> IF exc = "none"
                   THEN build_verdict(doc_id, rule_type, rule, pattern, llm.value)
                   ELSE NoVerdict]

(***************************************************************************)
(* chunk_text, one loop iteration per step.                                *)
(***************************************************************************)

MaxTextLen == 7
MaxSize == 4

\* a text of n pairwise distinct characters: character i is the one at offset i-1
TextOfLen(n) == [i \in 1..n |-> i]

\* chunk_text_body without the overlap: the next window starts at end
chunk_text_body_no_overlap(text, chunk_size, overlap, st) ==
  LET end   == st.start + chunk_size
      chunk == PySlice(text, st.start, end)
  IN  [start  |-> end,
       chunks |-> Append(st.chunks, chunk),
       pc     |-> IF end >= Len(text) THEN "return" ELSE "while"]

\* the body of the while loop, lines 77-83
chunk_text_body(text, chunk_size, overlap, st) ==
  LET end   == st.start + chunk_size
      chunk == PySlice(text, st.start, end)
  IN  [start  |-> end - overlap,
       chunks |-> Append(st.chunks, chunk),
       pc     |-> IF end >= Len(text) THEN "return" ELSE "while"]

\* the loop test of line 76 failing
chunk_text_exit(text, st) == [st EXCEPT !.pc = "return"]

RECURSIVE chunk_text_run(_, _, _, _)
chunk_text_run(text, chunk_size, overlap, st) ==
  IF st.pc = "return" THEN st.chunks
  ELSE IF st.start < Len(text)
       THEN chunk_text_run(text, chunk_size, overlap,
                           chunk_text_body(text, chunk_size, overlap, st))
       ELSE chunk_text_run(text, chunk_size, overlap, chunk_text_exit(text, st))

\* the whole call, for parameters with which the loop terminates
chunk_text(text, chunk_size, overlap) ==
  chunk_text_run(text, chunk_size, overlap,
                 [start |-> 0, chunks |-> <<>>, pc |-> "while"])

(***************************************************************************)
(* Python float arithmetic (IEEE 754 binary64, round to nearest, ties to   *)
(* even) on the operands of line 247.  A float is zero or m * 2^e with m a *)
(* sequence of MantissaBits bits, the first of them 1.                     *)
(***************************************************************************)

MantissaBits == 53

FloatZero == [zero |-> TRUE, m |-> <<>>, e |-> 0]

Front(s) == SubSeq(s, 1, Len(s) - 1)

\* the bits of a natural number, the most significant first
RECURSIVE nat_bits(_)
nat_bits(n) == IF n = 0 THEN <<>> ELSE Append(nat_bits(n \div 2), n % 2)

\* the bits of the number after the one of a bit sequence
bits_inc(a) ==
  IF \A i \in 1..Len(a) : a[i] = 1
  THEN <<1>> \o [i \in 1..Len(a) |-> 0]
  ELSE LET j == CHOOSE i \in 1..Len(a) :
                  a[i] = 0 /\ \A h \in (i + 1)..Len(a) : a[h] = 1
       IN  [i \in 1..Len(a) |-> IF i < j THEN a[i] ELSE IF i = j THEN 1 ELSE 0]

\* the eight bits of a number below 256
byte_bits(v) ==
  <<(v \div 128) % 2, (v \div 64) % 2, (v \div 32) % 2, (v \div 16) % 2,
    (v \div 8) % 2, (v \div 4) % 2, (v \div 2) % 2, v % 2>>

\* the number of the eight bits of a that end at bit i
byte_at(a, i) ==
  a[i - 7] * 128 + a[i - 6] * 64 + a[i - 5] * 32 + a[i - 4] * 16
  + a[i - 3] * 8 + a[i - 2] * 4 + a[i - 1] * 2 + a[i]

\* a bit sequence without its leading zeros
strip_zeros(a) ==
  IF \A i \in 1..Len(a) : a[i] = 0 THEN <<>>
  ELSE LET j == CHOOSE i \in 1..Len(a) : a[i] = 1 /\ \A h \in 1..(i - 1) : a[h] = 0
       IN  SubSeq(a, j, Len(a))

\* the bits of k times the number of a bit sequence whose length is a
\* multiple of eight, a byte at a time from the last: out holds the product
\* below bit i, carry what it carries over
RECURSIVE bits_times_from(_, _, _, _, _)
bits_times_from(a, k, i, carry, out) ==
  IF i = 0 THEN nat_bits(carry) \o out
  ELSE LET t == byte_at(a, i) * k + carry
       IN  bits_times_from(a, k, i - 8, t \div 256, byte_bits(t % 256) \o out)

bits_times(a, k) ==
  LET padded == [i \in 1..((8 - (Len(a) % 8)) % 8) |-> 0] \o a
  IN  strip_zeros(bits_times_from(padded, k, Len(padded), 0, <<>>))

\* the float nearest to bits * 2^e plus, when sticky, a positive amount below
\* the last bit; bits starts with 1
float_round(bits, sticky, e) ==
  IF Len(bits) <= MantissaBits
  THEN [zero |-> FALSE,
        m    |-> bits \o [i \in 1..(MantissaBits - Len(bits)) |-> 0],
        e    |-> e - (MantissaBits - Len(bits))]
  ELSE LET keep  == SubSeq(bits, 1, MantissaBits)
           guard == bits[MantissaBits + 1]
           below == sticky \/ \E i \in (MantissaBits + 2)..Len(bits) : bits[i] = 1
           up    == guard = 1 /\ (below \/ keep[MantissaBits] = 1)
           m     == IF up THEN bits_inc(keep) ELSE keep
           e1    == e + (Len(bits) - MantissaBits)
       IN  IF Len(m) > MantissaBits
           THEN [zero |-> FALSE, m |-> SubSeq(m, 1, MantissaBits), e |-> e1 + 1]
           ELSE [zero |-> FALSE, m |-> m, e |-> e1]

\* the next n bytes of the binary expansion of r / b after out, and the
\* remainder they leave
RECURSIVE fraction_from(_, _, _, _)
fraction_from(r, b, n, out) ==
  IF n = 0 THEN [bits |-> out, r |-> r]
  ELSE fraction_from((r * 256) % b, b, n - 1, out \o byte_bits((r * 256) \div b))

\* a / b of two ints, 0 <= a and 0 < b: the expansion of the quotient as far
\* as two bits past the mantissa, rounded
float_div(a, b) ==
  IF a = 0 THEN FloatZero
  ELSE LET whole == nat_bits(a \div b)
           f     == fraction_from(a % b, b, (MantissaBits + Len(nat_bits(b))) \div 8 + 2, <<>>)
       IN  float_round(strip_zeros(whole \o f.bits), f.r # 0, 0 - Len(f.bits))

\* x * k of a float and a positive int
float_mul(x, k) ==
  IF x.zero THEN FloatZero
  ELSE float_round(bits_times(x.m, k), FALSE, x.e)

(***************************************************************************)
(* generate_compliance_report, lines 233-254.  The rows of the DataFrame   *)
(* are the verdicts; a dict is a record with the set has of its keys.      *)
(***************************************************************************)

\* an element of df[column] == True: Python's ==, which a bool True and the
\* number 1 satisfy and no str, list or None does
equals_true(v) == (v.t = "bool" /\ v.b) \/ (v.t = "num" /\ v.n = 100)

\* the rows of df[df["overall_violation"] == True]
violation_rows(rs) == {i \in 1..Len(rs) : equals_true(rs[i].overall_violation)}

\* .size() with a key for the value of every row of the frame
group_sizes_zero_filled(rs, rows, column) ==
  [k \in {rs[i][column] : i \in 1..Len(rs)} |->
     Cardinality({i \in rows : rs[i][column] = k})]

\* .groupby(column).size().to_dict() over the rows of rows
group_sizes(rs, rows, column) ==
  [k \in {rs[i][column] : i \in rows} |->
     Cardinality({i \in rows : rs[i][column] = k})]

\* the rows of line 246 with a threshold of 0.8
high_confidence_rows_above_floor(rs) ==
  {i \in violation_rows(rs) : as_number(rs[i].confidence_score) > 80}

\* the rows of (df["overall_violation"] == True) & (df["confidence_score"] > 0.7)
high_confidence_rows(rs) ==
  {i \in violation_rows(rs) : as_number(rs[i].confidence_score) > 70}

NoSummary ==
  [has |-> {}, total_violations |-> 0, total_checks |-> 0,
   violations_by_type |-> <<>>, violations_by_severity |-> <<>>,
   high_confidence_violations |-> 0, compliance_score |-> FloatZero]

\* lines 240-248
report_summary(rs) ==
  LET violations == violation_rows(rs)
  IN  [has |-> {"total_violations", "total_checks", "violations_by_type",
                "violations_by_severity", "high_confidence_violations",
                "compliance_score"},
       total_violations |-> Cardinality(violations),
       total_checks |-> Len(rs),
       violations_by_type |-> group_sizes(rs, violations, "rule_type"),
       violations_by_severity |-> group_sizes(rs, violations, "severity"),
       high_confidence_violations |-> Cardinality(high_confidence_rows(rs)),
       compliance_score |->
         float_mul(float_div(Len(rs) - Cardinality(violations), Len(rs)), 100)]

\* lines 233-254 without the test of line 235
generate_compliance_report_always_scoring(rs) ==
  [has     |-> {"status", "summary", "detailed_results"},
   status  |-> "Analysis Complete",
   summary |-> report_summary(rs),
   detailed_results |-> rs]

\* lines 233-254
generate_compliance_report(rs) ==
  IF rs = <<>>
  THEN [has     |-> {"status", "summary"},
        status  |-> "No violations found",
        summary |-> NoSummary,
        detailed_results |-> <<>>]
  ELSE [has     |-> {"status", "summary", "detailed_results"},
        status  |-> "Analysis Complete",
        summary |-> report_summary(rs),
        detailed_results |-> rs]

(***************************************************************************)
(* The engine: construction, add_document_to_vector_db, analyze_document.  *)
(***************************************************************************)

MaxCalls == 1

ChunkSize == 1000

ChunkOverlap == 200

\* a rule; has is the set of the keys its JSON object carries
Rule(has, id, patterns) ==
  [has |-> has, id |-> id, name |-> <<"name of ", id>>,
   description |-> <<"description of ", id>>, severity |-> "HIGH",
   patterns |-> patterns, llm_prompt |-> <<"prompt of ", id>>]

AllKeys == {"id", "name", "description", "severity", "patterns", "llm_prompt"}

\* a rule file <stem>_rules.json (or another file) and the JSON object in it
RuleFile(stem, is_rules_json, has, rule_list) ==
  [stem |-> stem, is_rules_json |-> is_rules_json, parses |-> TRUE,
   json |-> [has |-> has, rules |-> rule_list]]

\* a file <stem>_rules.json whose text is not JSON
BrokenRuleFile(stem) ==
  [stem |-> stem, is_rules_json |-> TRUE, parses |-> FALSE,
   json |-> [has |-> {}, rules |-> <<>>]]

RuleSsn == Rule(AllKeys, "R1", <<<<"s", "s", "n">>>>)

RuleBare == Rule({"id", "name", "description"}, "R2", <<>>)

RuleTwoPatterns == Rule(AllKeys \ {"llm_prompt"}, "R3", <<<<"n", "n">>, <<"S">>>>)

\* the rule directories the engine is constructed over
RuleDirs ==
  {<<RuleFile("gdpr", TRUE, {"description", "rules"}, <<RuleSsn, RuleBare>>),
     RuleFile("__init__", FALSE, {}, <<>>),
     RuleFile("hipaa", TRUE, {"description"}, <<>>)>>,
   <<RuleFile("hipaa", TRUE, {"description", "rules"}, <<RuleTwoPatterns>>),
     RuleFile("gdpr", TRUE, {"description", "rules"}, <<RuleBare>>)>>,
   <<RuleFile("__init__", FALSE, {}, <<>>)>>}

\* filename.replace("_rules.json", "").upper()
upper_stem(stem) ==
  CASE stem = "gdpr"  -> "GDPR"
    [] stem = "hipaa" -> "HIPAA"
    [] stem = "sox"   -> "SOX"
    [] OTHER          -> stem

\* lines 46-57: one entry per *_rules.json file, in listing order
RECURSIVE load_from(_, _)
load_from(dir, k) ==
  IF k > Len(dir) THEN <<>>
  ELSE (IF dir[k].is_rules_json
        THEN <<[rule_type |-> upper_stem(dir[k].stem), rule_set |-> dir[k].json]>>
        ELSE <<>>)
       \o load_from(dir, k + 1)

load_all_rules(dir) == load_from(dir, 1)

\* the first key only
rules_keys_first_only(rs) == [k \in 1..Min(1, Len(rs)) |-> rs[k].rule_type]

\* list(self.rules.keys())
rules_keys(rs) == [k \in 1..Len(rs) |-> rs[k].rule_type]

\* rule_type in self.rules
rules_has(rs, rule_type) == \E k \in 1..Len(rs) : rs[k].rule_type = rule_type

\* self.rules[rule_type].get("rules", [])
rules_of(rs, rule_type) ==
  LET rule_set == (CHOOSE k \in 1..Len(rs) : rs[k].rule_type = rule_type)
  IN  IF "rules" \in rs[rule_set].rule_set.has THEN rs[rule_set].rule_set.rules ELSE <<>>

\* the values of an API key in the environment: unset, empty, set
KeyValues == {"unset", "", "sk-key"}

\* lines 36-44: a client is set when its key is truthy
setup_llm_client(key) == key \notin {"unset", ""}

DocIds == {"1", "2"}

\* documents: empty, one that the patterns of the rules match, one that none
\* matches
DocContents ==
  {<<>>,
   <<"x", "S", "S", "N", "x">>,
   <<"x", "x">>}

\* the rule_types argument: None or a list
NoneArg == [none |-> TRUE, list |-> <<>>]

ListArg(l) == [none |-> FALSE, list |-> l]

RuleTypeArgs ==
  {NoneArg, ListArg(<<"GDPR">>), ListArg(<<"SOX", "HIPAA">>),
   ListArg(<<"HIPAA", "SOX", "GDPR">>)}

NoFrame ==
  [doc_id |-> "", content |-> <<>>, rule_types |-> NoneArg, chunks |-> <<>>,
   i |-> 0, t |-> 1, r |-> 1, exc |-> "none"]

NoLast ==
  [rule_type |-> "", rule |-> RuleBare, response |-> AnswersNone,
   outcome |-> [exc |-> "none", llm |-> [exc |-> "none", value |-> AsValue(PyNone),
                                         sent |-> <<>>],
                verdict |-> NoVerdict],
   evaluated |-> FALSE]

\* the engine is not part of the behaviour
EngineUnused ==
  /\ openai_client = FALSE
  /\ anthropic_client = FALSE
  /\ rules = <<>>
  /\ collection = {}
  /\ pc = "unused"
  /\ frame = NoFrame
  /\ results = <<>>
  /\ last = NoLast
  /\ calls = 0

MatcherIdle == [pc |-> "unused"]

ChunkerIdle == [pc |-> "unused"]

ReporterIdle == [pc |-> "unused"]

LoaderIdle == [pc |-> "unused"]

IndexersIdle == [pc |-> "unused"]

PrompterIdle == [pc |-> "unused"]

\* lines 17-32: the engine after __init__
Init ==
  /\ \E openai_key \in KeyValues, anthropic_key \in KeyValues :
       /\ openai_client = setup_llm_client(openai_key)
       /\ anthropic_client = setup_llm_client(anthropic_key)
  /\ \E dir \in RuleDirs : rules = load_all_rules(dir)
  /\ collection = {}
  /\ pc = "idle"
  /\ frame = NoFrame
  /\ results = <<>>
  /\ last = NoLast
  /\ calls = 0
  /\ chunker = ChunkerIdle
  /\ matcher = MatcherIdle
  /\ reporter = ReporterIdle
  /\ loader = LoaderIdle
  /\ indexers = IndexersIdle
  /\ prompter = PrompterIdle

\* a key that leaves the document out
chunk_key_without_document(doc_id, i) == <<"", "_chunk_", i>>

\* f"{doc_id}_chunk_{i}"
chunk_key(doc_id, i) == <<doc_id, "_chunk_", i>>

\* lines 65-69: the collection after collection.add of chunk number i of
\* doc_id; an add under a key the collection already holds stores nothing
collection_add(coll, doc_id, i, chunk) ==
  LET key == chunk_key(doc_id, i)
  IN  IF \E e \in coll : e.id = key THEN coll
      ELSE coll \cup {[id |-> key, document |-> chunk,
                       metadata |-> [doc_id |-> doc_id, chunk_id |-> i]]}

\* lines 183-188 up to the loop of add_document_to_vector_db (lines 62-64)
AnalyzeCall(doc_id, content, rule_types) ==
  /\ pc \in {"idle", "returned", "raised"}
  /\ calls < MaxCalls
  /\ calls' = calls + 1
  /\ results' = <<>>
  /\ frame' = [doc_id |-> doc_id, content |-> content, rule_types |-> rule_types,
               chunks |-> chunk_text(content, ChunkSize, ChunkOverlap),
               i |-> 0, t |-> 1, r |-> 1, exc |-> "none"]
  /\ pc' = "index"
  /\ last' = NoLast
  /\ reporter' = ReporterIdle
  /\ UNCHANGED <<openai_client, anthropic_client, rules, collection, chunker, matcher,
                 loader, indexers, prompter>>

\* lines 64-69: collection.add stores chunk i under its key; an add under a
\* key the collection already holds stores nothing
IndexAdd ==
  /\ pc = "index"
  /\ frame.i < Len(frame.chunks)
  /\ collection' = collection_add(collection, frame.doc_id, frame.i,
                                  frame.chunks[frame.i + 1])
  /\ frame' = [frame EXCEPT !.i = frame.i + 1]
  /\ UNCHANGED <<openai_client, anthropic_client, rules, pc, results, last, calls,
                 chunker, matcher, reporter, loader, indexers, prompter>>

\* lines 65-69: collection.add raises (the embedding or the store fails, or
\* the store refuses a key it already holds); nothing catches it
IndexRaise ==
  /\ pc = "index"
  /\ frame.i < Len(frame.chunks)
  /\ \E exc \in {"BackendFailure"}
                \cup (IF \E e \in collection : e.id = chunk_key(frame.doc_id, frame.i)
                      THEN {"DuplicateIDError"} ELSE {}) :
       frame' = [frame EXCEPT !.exc = exc]
  /\ pc' = "raised"
  /\ UNCHANGED <<openai_client, anthropic_client, rules, collection, results, last,
                 calls, chunker, matcher, reporter, loader, indexers, prompter>>

\* lines 190-192: indexing is over, rule_types defaults to every key (none
\* goes on telling that the argument was None)
IndexDone ==
  /\ pc = "index"
  /\ frame.i = Len(frame.chunks)
  /\ frame' = [frame EXCEPT
                 !.rule_types.list = IF frame.rule_types.none
                                     THEN rules_keys(rules) ELSE @,
                 !.t = 1, !.r = 1]
  /\ pc' = "rules"
  /\ UNCHANGED <<openai_client, anthropic_client, rules, collection, results, last,
                 calls, chunker, matcher, reporter, loader, indexers, prompter>>

\* lines 195-196 with the results so far dropped
SkipRuleTypeDroppingResults ==
  /\ pc = "rules"
  /\ frame.t <= Len(frame.rule_types.list)
  /\ ~rules_has(rules, frame.rule_types.list[frame.t])
  /\ frame' = [frame EXCEPT !.t = frame.t + 1, !.r = 1]
  /\ results' = <<>>
  /\ UNCHANGED <<openai_client, anthropic_client, rules, collection, pc,
                 last, calls, chunker, matcher, reporter, loader, indexers, prompter>>

\* lines 195-196: a rule type the engine has no rules for
SkipRuleType ==
  /\ pc = "rules"
  /\ frame.t <= Len(frame.rule_types.list)
  /\ ~rules_has(rules, frame.rule_types.list[frame.t])
  /\ frame' = [frame EXCEPT !.t = frame.t + 1, !.r = 1]
  /\ UNCHANGED <<openai_client, anthropic_client, rules, collection, pc, results,
                 last, calls, chunker, matcher, reporter, loader, indexers, prompter>>

\* lines 200-229 with the document indexed again for every rule
EvaluateRuleIndexingAgain(response) ==
  /\ pc = "rules"
  /\ frame.t <= Len(frame.rule_types.list)
  /\ rules_has(rules, frame.rule_types.list[frame.t])
  /\ frame.r <= Len(rules_of(rules, frame.rule_types.list[frame.t]))
  /\ LET rule_type == frame.rule_types.list[frame.t]
         rule      == rules_of(rules, rule_type)[frame.r]
         outcome   == evaluate_rule(frame.doc_id, frame.content, rule_type, rule,
                                    openai_client, anthropic_client, response)
     IN  /\ last' = [rule_type |-> rule_type, rule |-> rule, response |-> response,
                     outcome |-> outcome, evaluated |-> TRUE]
         /\ IF outcome.exc = "none"
            THEN /\ results' = Append(results, outcome.verdict)
                 /\ frame' = [frame EXCEPT !.r = frame.r + 1,
                                           !.i = frame.i + Len(frame.chunks)]
                 /\ pc' = pc
            ELSE /\ results' = results
                 /\ frame' = [frame EXCEPT !.exc = outcome.exc]
                 /\ pc' = "raised"
  /\ UNCHANGED <<openai_client, anthropic_client, rules, collection, calls,
                 chunker, matcher, reporter, loader, indexers, prompter>>

\* lines 200-229: one rule of the current rule type, the backend doing response
EvaluateRule(response) ==
  /\ pc = "rules"
  /\ frame.t <= Len(frame.rule_types.list)
  /\ rules_has(rules, frame.rule_types.list[frame.t])
  /\ frame.r <= Len(rules_of(rules, frame.rule_types.list[frame.t]))
  /\ LET rule_type == frame.rule_types.list[frame.t]
         rule      == rules_of(rules, rule_type)[frame.r]
         outcome   == evaluate_rule(frame.doc_id, frame.content, rule_type, rule,
                                    openai_client, anthropic_client, response)
     IN  /\ last' = [rule_type |-> rule_type, rule |-> rule, response |-> response,
                     outcome |-> outcome, evaluated |-> TRUE]
         /\ IF outcome.exc = "none"
            THEN /\ results' = Append(results, outcome.verdict)
                 /\ frame' = [frame EXCEPT !.r = frame.r + 1]
                 /\ pc' = pc
            ELSE /\ results' = results
                 /\ frame' = [frame EXCEPT !.exc = outcome.exc]
                 /\ pc' = "raised"
  /\ UNCHANGED <<openai_client, anthropic_client, rules, collection, calls,
                 chunker, matcher, reporter, loader, indexers, prompter>>

\* line 200 going through the rules of the rule type once more
RuleTypeDoneRetrying ==
  /\ pc = "rules"
  /\ frame.t <= Len(frame.rule_types.list)
  /\ rules_has(rules, frame.rule_types.list[frame.t])
  /\ frame.r > Len(rules_of(rules, frame.rule_types.list[frame.t]))
  /\ frame' = [frame EXCEPT !.r = 1]
  /\ UNCHANGED <<openai_client, anthropic_client, rules, collection, pc, results,
                 last, calls, chunker, matcher, reporter, loader, indexers, prompter>>

\* line 200: the rules of the current rule type are exhausted
RuleTypeDone ==
  /\ pc = "rules"
  /\ frame.t <= Len(frame.rule_types.list)
  /\ rules_has(rules, frame.rule_types.list[frame.t])
  /\ frame.r > Len(rules_of(rules, frame.rule_types.list[frame.t]))
  /\ frame' = [frame EXCEPT !.t = frame.t + 1, !.r = 1]
  /\ UNCHANGED <<openai_client, anthropic_client, rules, collection, pc, results,
                 last, calls, chunker, matcher, reporter, loader, indexers, prompter>>

\* line 231
AnalyzeReturn ==
  /\ pc = "rules"
  /\ frame.t > Len(frame.rule_types.list)
  /\ pc' = "returned"
  /\ UNCHANGED <<openai_client, anthropic_client, rules, collection, frame, results,
                 last, calls, chunker, matcher, reporter, loader, indexers, prompter>>

\* lines 233-254, called on the results analyze_document returned (main.py
\* line 166)
GenerateReport ==
  /\ pc = "returned"
  /\ reporter.pc = "unused"
  /\ reporter' = [pc |-> "return", results |-> results,
                  report |-> generate_compliance_report(results)]
  /\ UNCHANGED <<engine_vars, chunker, matcher, loader, indexers, prompter>>

Next ==
  \/ \E doc_id \in DocIds, content \in DocContents, rule_types \in RuleTypeArgs :
       AnalyzeCall(doc_id, content, rule_types)
  \/ IndexAdd
  \/ IndexRaise
  \/ IndexDone
  \/ SkipRuleType
  \/ \E response \in Responses : EvaluateRule(response)
  \/ RuleTypeDone
  \/ AnalyzeReturn
  \/ GenerateReport

Spec == Init /\ [][Next]_vars

(***************************************************************************)
(* Inputs of the pattern matcher.                                          *)
(***************************************************************************)

MaxCore == 2
MaxPatterns == 2

\* the characters documents and patterns are made of
CoreChars == {"s", "S", "n"}

\* paddings around the core of a document, to reach both sides of the
\* context radius
LeftPads ==
  {Rep(c, k) : c \in {"x", "I_dot"},
               k \in {0, ContextRadius \div 2 + 1, ContextRadius, ContextRadius + 1}}

RightPads == {Rep("x", k) : k \in {0, ContextRadius + 1}}

SeqsUpTo(S, n) == UNION {[1..k -> S] : k \in 0..n}

Contents ==
  {l \o core \o r : l \in LeftPads, core \in SeqsUpTo(CoreChars, MaxCore),
                    r \in RightPads}

PatternPool == {<<>>, <<"s">>, <<"S", "n">>, <<"x">>, <<"i">>}

MatchRules ==
  {Rule(AllKeys, "R1", ps) : ps \in SeqsUpTo(PatternPool, MaxPatterns)}
  \cup {Rule(AllKeys \ {"patterns"}, "R1", <<>>)}

NoResult == [hit |-> FALSE, evidence |-> <<>>]

InitMatch ==
  /\ matcher \in [pc : {"call"}, content : Contents, rule : MatchRules,
                  result : {NoResult}]
  /\ chunker = ChunkerIdle
  /\ reporter = ReporterIdle
  /\ loader = LoaderIdle
  /\ indexers = IndexersIdle
  /\ prompter = PrompterIdle
  /\ EngineUnused

\* lines 96-112
MatchCall ==
  /\ matcher.pc = "call"
  /\ matcher' = [matcher EXCEPT !.pc = "return",
                   !.result = check_pattern_compliance(matcher.content, matcher.rule)]
  /\ UNCHANGED <<chunker, reporter, loader, engine_vars, indexers, prompter>>

NextMatch == MatchCall

SpecMatch == InitMatch /\ [][NextMatch]_vars

InitChunk ==
  /\ chunker \in [pc : {"call"},
                  text : {TextOfLen(n) : n \in 0..MaxTextLen},
                  chunk_size : 1..MaxSize,
                  overlap : 0..MaxSize,
                  start : {0},
                  chunks : {<<>>}]
  /\ matcher = MatcherIdle
  /\ reporter = ReporterIdle
  /\ loader = LoaderIdle
  /\ indexers = IndexersIdle
  /\ prompter = PrompterIdle
  /\ EngineUnused

\* lines 73-74
ChunkCall ==
  /\ chunker.pc = "call"
  /\ chunker' = [chunker EXCEPT !.pc = "while", !.start = 0, !.chunks = <<>>]
  /\ UNCHANGED <<matcher, reporter, loader, engine_vars, indexers, prompter>>

\* lines 76-83: one iteration of the loop
ChunkIterate ==
  /\ chunker.pc = "while"
  /\ chunker.start < Len(chunker.text)
  /\ Len(chunker.chunks) <= Len(chunker.text)
  /\ LET st == chunk_text_body(chunker.text, chunker.chunk_size, chunker.overlap,
                               [start |-> chunker.start, chunks |-> chunker.chunks,
                                pc |-> chunker.pc])
     IN  chunker' = [chunker EXCEPT !.start = st.start, !.chunks = st.chunks,
                                    !.pc = st.pc]
  /\ UNCHANGED <<matcher, reporter, loader, engine_vars, indexers, prompter>>

\* line 76: the loop test fails
ChunkExit ==
  /\ chunker.pc = "while"
  /\ ~(chunker.start < Len(chunker.text))
  /\ chunker' = [chunker EXCEPT !.pc = "return"]
  /\ UNCHANGED <<matcher, reporter, loader, engine_vars, indexers, prompter>>

NextChunk == ChunkCall \/ ChunkIterate \/ ChunkExit

SpecChunk == InitChunk /\ [][NextChunk]_vars

(***************************************************************************)
(* generate_compliance_report on its own, over sequences of verdicts that  *)
(* analyze_document builds.                                                *)
(***************************************************************************)

MaxVerdicts == 3

\* the verdict of a rule on a document when the openai backend answers with
\* the JSON text of value
verdict_of(rule_type, rule, content, value) ==
  evaluate_rule("1", content, rule_type, rule, TRUE, FALSE,
                Answers(json_text(AsDict(value)))).verdict

\* verdicts: a pattern hit of high severity; a violation the backend reports
\* with confidence 0.9; no violation; a violation reported without a
\* confidence; a violation reported as the string "yes"; a violation reported
\* as the number 1.0 with the confidence true
ReportVerdicts ==
  {verdict_of("GDPR", RuleSsn, <<"x", "S", "S", "N", "x">>,
              Dict(PyBool(FALSE), PyNum(50), PyList(<<>>), PyStr(<<"because">>))),
   verdict_of("GDPR", RuleBare, <<"x", "x">>,
              Dict(PyBool(TRUE), PyNum(90), PyList(<<<<"quote">>>>), PyStr(<<"because">>))),
   verdict_of("HIPAA", RuleTwoPatterns, <<"x", "x">>,
              Dict(PyBool(FALSE), PyNum(50), PyList(<<>>), PyStr(<<"because">>))),
   verdict_of("HIPAA", RuleTwoPatterns, <<"x", "x">>,
              Dict(PyBool(TRUE), Absent, Absent, Absent)),
   verdict_of("GDPR", RuleBare, <<"x", "x">>,
              Dict(PyStr(<<"yes">>), PyNum(90), Absent, PyStr(<<"because">>))),
   verdict_of("GDPR", RuleBare, <<"x", "x">>,
              Dict(PyNum(100), PyBool(TRUE), Absent, Absent))}

NoReport == generate_compliance_report(<<>>)

InitReport ==
  /\ reporter \in [pc : {"call"}, results : SeqsUpTo(ReportVerdicts, MaxVerdicts),
                   report : {NoReport}]
  /\ chunker = ChunkerIdle
  /\ matcher = MatcherIdle
  /\ loader = LoaderIdle
  /\ indexers = IndexersIdle
  /\ prompter = PrompterIdle
  /\ EngineUnused

\* lines 233-254
ReportCall ==
  /\ reporter.pc = "call"
  /\ reporter' = [reporter EXCEPT !.pc = "return",
                    !.report = generate_compliance_report(reporter.results)]
  /\ UNCHANGED <<chunker, matcher, loader, engine_vars, indexers, prompter>>

NextReport == ReportCall

SpecReport == InitReport /\ [][NextReport]_vars

(***************************************************************************)
(* load_all_rules on its own, one file of the directory per step, over     *)
(* directories with rules that lack keys and with files that are not JSON. *)
(***************************************************************************)

MaxFiles == 3

RuleNoId == Rule(AllKeys \ {"id"}, "R4", <<<<"s", "s", "n">>>>)

RuleNoName == Rule(AllKeys \ {"name"}, "R5", <<>>)

RuleNoDescription == Rule({"id", "name"}, "R6", <<>>)

\* the files a rules directory can hold
LoadFiles ==
  {RuleFile("gdpr", TRUE, {"description", "rules"}, <<RuleSsn, RuleBare>>),
   RuleFile("gdpr", TRUE, {"description", "rules"}, <<RuleSsn, RuleNoId>>),
   RuleFile("hipaa", TRUE, {"rules"}, <<RuleNoName>>),
   BrokenRuleFile("hipaa"),
   RuleFile("sox", TRUE, {"description", "rules"}, <<RuleNoDescription, RuleBare>>),
   RuleFile("SOX", TRUE, {"rules"}, <<RuleBare>>),
   RuleFile("__init__", FALSE, {}, <<>>)}

\* the listings of os.listdir: files of different names
LoadDirs ==
  {dir \in SeqsUpTo(LoadFiles, MaxFiles) :
     \A i, j \in 1..Len(dir) : i # j => dir[i].stem # dir[j].stem}

\* rules[rule_type] = ...: a dict keeps the place of a key it already has
rules_put(rs, rule_type, rule_set) ==
  IF \E k \in 1..Len(rs) : rs[k].rule_type = rule_type
  THEN [k \in 1..Len(rs) |->
          IF rs[k].rule_type = rule_type
          THEN [rule_type |-> rule_type, rule_set |-> rule_set] ELSE rs[k]]
  ELSE Append(rs, [rule_type |-> rule_type, rule_set |-> rule_set])

\* the two loaders of the repository: ComplianceEngine.load_all_rules and
\* load_all_rules of the rules package
LoadFunctions == {"engine", "package"}

\* rule_type.lower() of rules/__init__.py line 30
lower_stem(rule_type) ==
  CASE rule_type = "GDPR"  -> "gdpr"
    [] rule_type = "HIPAA" -> "hipaa"
    [] rule_type = "SOX"   -> "sox"
    [] OTHER               -> rule_type

\* rules/__init__.py lines 29-32: the files of the directory that
\* load_rule_file opens for a rule type
rule_files_of(dir, rule_type) ==
  {j \in 1..Len(dir) : dir[j].is_rules_json /\ dir[j].stem = lower_stem(rule_type)}

InitLoad ==
  /\ loader \in [fn : LoadFunctions, pc : {"call"}, dir : LoadDirs, k : {1},
                 rules : {<<>>}, exc : {"none"}]
  /\ indexers = IndexersIdle
  /\ prompter = PrompterIdle
  /\ chunker = ChunkerIdle
  /\ matcher = MatcherIdle
  /\ reporter = ReporterIdle
  /\ EngineUnused

\* lines 47-50
LoadCall ==
  /\ loader.pc = "call"
  /\ loader' = [loader EXCEPT !.pc = "for", !.k = 1, !.rules = <<>>]
  /\ UNCHANGED <<chunker, matcher, reporter, engine_vars, indexers, prompter>>

\* line 51 (rules/__init__.py line 46): a file that is not a *_rules.json
LoadSkipFile ==
  /\ loader.pc = "for"
  /\ loader.k <= Len(loader.dir)
  /\ ~loader.dir[loader.k].is_rules_json
  /\ loader' = [loader EXCEPT !.k = loader.k + 1]
  /\ UNCHANGED <<chunker, matcher, reporter, engine_vars, indexers, prompter>>

\* lines 51-55: a *_rules.json whose JSON is stored under its rule type
LoadRuleFile ==
  /\ loader.fn = "engine"
  /\ loader.pc = "for"
  /\ loader.k <= Len(loader.dir)
  /\ loader.dir[loader.k].is_rules_json
  /\ loader.dir[loader.k].parses
  /\ loader' = [loader EXCEPT
                  !.k = loader.k + 1,
                  !.rules = rules_put(loader.rules, upper_stem(loader.dir[loader.k].stem),
                                      loader.dir[loader.k].json)]
  /\ UNCHANGED <<chunker, matcher, reporter, engine_vars, indexers, prompter>>

\* line 55: json.load raises on a file that is not JSON; nothing catches it
LoadRaise ==
  /\ loader.fn = "engine"
  /\ loader.pc = "for"
  /\ loader.k <= Len(loader.dir)
  /\ loader.dir[loader.k].is_rules_json
  /\ ~loader.dir[loader.k].parses
  /\ loader' = [loader EXCEPT !.pc = "raised", !.exc = "JSONDecodeError"]
  /\ UNCHANGED <<chunker, matcher, reporter, engine_vars, indexers, prompter>>

\* line 57
LoadReturn ==
  /\ loader.pc = "for"
  /\ loader.k > Len(loader.dir)
  /\ loader' = [loader EXCEPT !.pc = "return"]
  /\ UNCHANGED <<chunker, matcher, reporter, engine_vars, indexers, prompter>>

\* rules/__init__.py lines 58-59 and 29-34: the file of the lowered rule type
\* is loaded and stored under the rule type
PackageLoadRuleFile ==
  /\ loader.fn = "package"
  /\ loader.pc = "for"
  /\ loader.k <= Len(loader.dir)
  /\ loader.dir[loader.k].is_rules_json
  /\ \E j \in rule_files_of(loader.dir, upper_stem(loader.dir[loader.k].stem)) :
       /\ loader.dir[j].parses
       /\ loader' = [loader EXCEPT
                       !.k = loader.k + 1,
                       !.rules = rules_put(loader.rules,
                                           upper_stem(loader.dir[loader.k].stem),
                                           loader.dir[j].json)]
  /\ UNCHANGED <<chunker, matcher, reporter, engine_vars, indexers, prompter>>

\* rules/__init__.py line 34: json.load raises on a file that is not JSON, and
\* line 60 catches FileNotFoundError only
PackageLoadRaise ==
  /\ loader.fn = "package"
  /\ loader.pc = "for"
  /\ loader.k <= Len(loader.dir)
  /\ loader.dir[loader.k].is_rules_json
  /\ \E j \in rule_files_of(loader.dir, upper_stem(loader.dir[loader.k].stem)) :
       ~loader.dir[j].parses
  /\ loader' = [loader EXCEPT !.pc = "raised", !.exc = "JSONDecodeError"]
  /\ UNCHANGED <<chunker, matcher, reporter, engine_vars, indexers, prompter>>

\* rules/__init__.py lines 35-36 and 60-61: no file has the lowered name,
\* load_rule_file raises FileNotFoundError and the rule type is passed over
PackageLoadMissing ==
  /\ loader.fn = "package"
  /\ loader.pc = "for"
  /\ loader.k <= Len(loader.dir)
  /\ loader.dir[loader.k].is_rules_json
  /\ rule_files_of(loader.dir, upper_stem(loader.dir[loader.k].stem)) = {}
  /\ loader' = [loader EXCEPT !.k = loader.k + 1]
  /\ UNCHANGED <<chunker, matcher, reporter, engine_vars, indexers, prompter>>

NextLoad ==
  \/ LoadCall
  \/ LoadSkipFile
  \/ LoadRuleFile
  \/ LoadRaise
  \/ LoadReturn
  \/ PackageLoadRuleFile
  \/ PackageLoadRaise
  \/ PackageLoadMissing

SpecLoad == InitLoad /\ [][NextLoad]_vars

(***************************************************************************)
(* add_document_to_vector_db called by concurrent callers on one engine    *)
(* (SpecIndex): every collection.add is one step, the steps of the callers *)
(* interleave freely.                                                      *)
(***************************************************************************)
\* the add_document_to_vector_db calls made by all callers together
MaxRuns == 2

\* the threads that call the engine
Callers == {"a", "b"}

\* a document of one chunk and two documents of two chunks
IndexContents ==
  {<<"a", "b">>, Rep("x", ChunkSize + 1), Rep("y", ChunkSize + 1)}

IdleCaller ==
  [pc |-> "idle", doc_id |-> "", chunks |-> <<>>, i |-> 0, exc |-> "none",
   ids |-> <<>>]

RECURSIVE runs_of(_, _)
\* the calls the callers of S have made
runs_of(ix, S) ==
  IF S = {} THEN 0
  ELSE LET c == CHOOSE x \in S : TRUE
       IN  Len(ix[c].ids) + runs_of(ix, S \ {c})

InitIndex ==
  /\ indexers = [c \in Callers |-> IdleCaller]
  /\ prompter = PrompterIdle
  /\ chunker = ChunkerIdle
  /\ matcher = MatcherIdle
  /\ reporter = ReporterIdle
  /\ loader = LoaderIdle
  /\ EngineUnused

\* lines 59-62: caller c enters add_document_to_vector_db; ids remembers the
\* document ids the caller has indexed
CallerCall(c, doc_id, content) ==
  /\ indexers[c].pc \in {"idle", "done", "raised"}
  /\ runs_of(indexers, Callers) < MaxRuns
  /\ indexers' = [indexers EXCEPT
                    ![c] = [pc |-> "for", doc_id |-> doc_id,
                            chunks |-> chunk_text(content, ChunkSize, ChunkOverlap),
                            i |-> 0, exc |-> "none",
                            ids |-> Append(indexers[c].ids, doc_id)]]
  /\ UNCHANGED <<engine_vars, chunker, matcher, reporter, loader, prompter>>

\* lines 64-69: caller c adds its chunk number i
CallerAdd(c) ==
  /\ indexers[c].pc = "for"
  /\ indexers[c].i < Len(indexers[c].chunks)
  /\ collection' = collection_add(collection, indexers[c].doc_id, indexers[c].i,
                                  indexers[c].chunks[indexers[c].i + 1])
  /\ indexers' = [indexers EXCEPT ![c].i = @ + 1]
  /\ UNCHANGED <<openai_client, anthropic_client, rules, pc, frame, results, last,
                 calls, chunker, matcher, reporter, loader, prompter>>

\* lines 65-69: the collection.add of caller c raises, as in IndexRaise
CallerRaise(c) ==
  /\ indexers[c].pc = "for"
  /\ indexers[c].i < Len(indexers[c].chunks)
  /\ \E exc \in {"BackendFailure"}
                \cup (IF \E e \in collection :
                           e.id = chunk_key(indexers[c].doc_id, indexers[c].i)
                      THEN {"DuplicateIDError"} ELSE {}) :
       indexers' = [indexers EXCEPT ![c].pc = "raised", ![c].exc = exc]
  /\ UNCHANGED <<engine_vars, chunker, matcher, reporter, loader, prompter>>

\* line 64: the chunks of caller c are exhausted, the method returns
CallerReturn(c) ==
  /\ indexers[c].pc = "for"
  /\ indexers[c].i = Len(indexers[c].chunks)
  /\ indexers' = [indexers EXCEPT ![c].pc = "done"]
  /\ UNCHANGED <<engine_vars, chunker, matcher, reporter, loader, prompter>>

NextIndex ==
  \/ \E c \in Callers, doc_id \in DocIds, content \in IndexContents :
       CallerCall(c, doc_id, content)
  \/ \E c \in Callers : CallerAdd(c)
  \/ \E c \in Callers : CallerRaise(c)
  \/ \E c \in Callers : CallerReturn(c)

SpecIndex == InitIndex /\ [][NextIndex]_vars

(***************************************************************************)
(* The prompt of llm_compliance_check for two documents and one rule       *)
(* (SpecPrompt): documents around the limit of 3000 characters.            *)
(***************************************************************************)
\* the characters a document has beyond a prefix of PromptLimit - 1,
\* PromptLimit or fewer characters
MaxExcess == 2

\* documents of "x" up to the limit, followed by up to MaxExcess of "a", "b"
PromptContents ==
  {Rep("x", n) \o tail : n \in {2, PromptLimit - 1, PromptLimit},
                         tail \in SeqsUpTo({"a", "b"}, MaxExcess)}

\* a rule with an llm_prompt of its own and one without
PromptRules == {RuleSsn, RuleBare}

InitPrompt ==
  /\ prompter \in [pc : {"call"}, first : PromptContents, second : PromptContents,
                   rule : PromptRules, first_sent : {<<>>}, second_sent : {<<>>}]
  /\ chunker = ChunkerIdle
  /\ matcher = MatcherIdle
  /\ reporter = ReporterIdle
  /\ loader = LoaderIdle
  /\ indexers = IndexersIdle
  /\ EngineUnused

\* lines 114-156: the call on each of the two documents, with a backend
\* configured; what the backend received is kept
PromptCall ==
  /\ prompter.pc = "call"
  /\ prompter' = [prompter EXCEPT
                    !.pc = "return",
                    !.first_sent = llm_compliance_check(prompter.first, prompter.rule,
                                                        TRUE, FALSE, AnswersNone).sent,
                    !.second_sent = llm_compliance_check(prompter.second, prompter.rule,
                                                         TRUE, FALSE, AnswersNone).sent]
  /\ UNCHANGED <<engine_vars, chunker, matcher, reporter, loader, indexers>>

NextPrompt == PromptCall

SpecPrompt == InitPrompt /\ [][NextPrompt]_vars

(***************************************************************************)
(* Properties of chunk_text (SpecChunk).                                   *)
(***************************************************************************)

Range(f) == {f[i] : i \in DOMAIN f}

\* the offsets of a non-empty window of a text of distinct characters
WindowStart(w) == w[1] - 1

WindowEnd(w) == w[Len(w)]

ValidChunkParams ==
  chunker.chunk_size > chunker.overlap /\ chunker.overlap >= 0

\* C9: for a non-empty text and chunk_size > overlap >= 0, window k starts at
\* offset (k-1)*(chunk_size-overlap), so the starts increase strictly; every
\* window is a contiguous piece of the text; two consecutive windows share
\* exactly overlap characters, except possibly when the second is the final
\* window; and when the call returns the last window ends at offset len(text).
ChunkWindowsAdvance ==
  (chunker.pc \in {"while", "return"} /\ Len(chunker.text) > 0 /\ ValidChunkParams) =>
    LET cs   == chunker.chunks
        step == chunker.chunk_size - chunker.overlap
    IN  /\ \A k \in 1..Len(cs) :
               /\ cs[k] # <<>>
               /\ WindowStart(cs[k]) = (k - 1) * step
               /\ cs[k] = [i \in 1..Len(cs[k]) |-> WindowStart(cs[k]) + i]
        /\ \A k \in 1..(Len(cs) - 1) :
               /\ WindowStart(cs[k]) < WindowStart(cs[k + 1])
               /\ (k + 1 < Len(cs) \/ chunker.pc = "while") =>
                     Cardinality(Range(cs[k]) \cap Range(cs[k + 1])) = chunker.overlap
        /\ chunker.pc = "return" =>
               /\ cs # <<>>
               /\ WindowEnd(cs[Len(cs)]) = Len(chunker.text)

\* a returned call with at least three windows, a positive overlap and a short
\* final window
ChunkWindowsAdvanceWitness ==
  /\ chunker.pc = "return"
  /\ ValidChunkParams
  /\ chunker.overlap >= 1
  /\ Len(chunker.chunks) >= 3
  /\ Len(chunker.chunks[Len(chunker.chunks)]) < chunker.chunk_size

\* C10: a call with overlap >= chunk_size is rejected before any window is
\* produced: it never appends a window and never returns normally.
ChunkRejectsOverlapNotBelowSize ==
  (chunker.pc # "unused" /\ chunker.overlap >= chunker.chunk_size) =>
    (chunker.chunks = <<>> /\ chunker.pc # "return")

\* C11: chunk_text terminates: an iteration of the windowing loop that is
\* followed by another one has moved start forward, so the loop cannot stay
\* at an offset (or fall back) and run forever.
ChunkLoopMakesProgress ==
  [][(chunker.pc = "while" /\ chunker'.pc = "while")
       => chunker'.start > chunker.start]_vars

(***************************************************************************)
(* Properties of check_pattern_compliance (SpecMatch).                     *)
(***************************************************************************)

\* pattern p occurs in text t when case is ignored
OccursIgnoringCase(p, t) ==
  LET lp == str_lower(p)
      lt == str_lower(t)
  IN  \E i \in 1..(Len(lt) - Len(lp) + 1) : \A j \in 1..Len(lp) : lt[i + j - 1] = lp[j]

MatcherPatterns ==
  IF "patterns" \in matcher.rule.has THEN matcher.rule.patterns ELSE <<>>

OccurrencesIn(p, t) ==
  {i \in 0..(Len(t) - Len(p)) : str_lower(SubSeq(t, i + 1, i + Len(p))) = str_lower(p)}

FirstOccurrenceIn(p, t) ==
  CHOOSE i \in OccurrencesIn(p, t) : \A j \in OccurrencesIn(p, t) : i <= j

\* the snippet around the first occurrence of p in t
SnippetAroundFirst(p, t) ==
  LET s == FirstOccurrenceIn(p, t)
      a == IF s - ContextRadius < 0 THEN 0 ELSE s - ContextRadius
      b == IF s + Len(p) + ContextRadius > Len(t) THEN Len(t)
           ELSE s + Len(p) + ContextRadius
  IN  [i \in 1..(b - a) |-> t[a + i]]

\* the indices of the patterns that occur, in pattern order
MatchedPatternIndices ==
  LET Occurs(k) == OccursIgnoringCase(MatcherPatterns[k], matcher.content)
  IN  SelectSeq([k \in 1..Len(MatcherPatterns) |-> k], Occurs)

\* C8: the evidence has one entry per pattern that matches, in pattern order,
\* and the snippet of an entry is the text from 100 characters before the
\* first occurrence of its pattern to 100 characters after its end, clamped
\* to the text.
EvidenceIsContextOfFirstOccurrence ==
  matcher.pc = "return" =>
    LET ev == matcher.result.evidence
        mi == MatchedPatternIndices
    IN  /\ Len(ev) = Len(mi)
        /\ \A m \in 1..Len(ev) :
             LET p == MatcherPatterns[mi[m]]
             IN  OccurrencesIn(p, matcher.content) # {} =>
                   ev[m] = <<"Found '">> \o p \o <<"' in context: ...">>
                           \o SnippetAroundFirst(p, matcher.content) \o <<"...">>

HasNoExpandingCharacter(t) == \A i \in 1..Len(t) : Len(lower_char(t[i])) = 1

\* the same for the texts whose characters all lower to one character
EvidenceIsContextOfFirstOccurrencePlain ==
  HasNoExpandingCharacter(matcher.content) => EvidenceIsContextOfFirstOccurrence

(***************************************************************************)
(* Properties of analyze_document and llm_compliance_check (Spec).         *)
(***************************************************************************)

\* C1: in every verdict overall_violation is a boolean, and it is true
\* exactly when the pattern flag is true or the LLM violation is.
VerdictOverallIsBooleanDisjunction ==
  \A k \in 1..Len(results) :
    /\ results[k].overall_violation.t = "bool"
    /\ results[k].overall_violation.b =
         (results[k].pattern_violation \/ truthy(results[k].llm_violation))

\* C2: in every verdict confidence_score is the larger of the pattern floor
\* (0.8 on a pattern hit, else 0.0) and llm_confidence; so it is at least 0.8
\* on a pattern hit.
VerdictConfidenceIsMax ==
  \A k \in 1..Len(results) :
    LET v     == results[k]
        floor == IF v.pattern_violation THEN 80 ELSE 0
        conf  == IF v.llm_confidence.t = "bool"
                 THEN (IF v.llm_confidence.b THEN 100 ELSE 0) ELSE v.llm_confidence.n
        score == IF v.confidence_score.t = "bool"
                 THEN (IF v.confidence_score.b THEN 100 ELSE 0) ELSE v.confidence_score.n
    IN  /\ v.confidence_score.t \in {"num", "bool"}
        /\ score = (IF conf > floor THEN conf ELSE floor)
        /\ v.pattern_violation => score >= 80

\* a verdict with a pattern hit and an LLM confidence below the floor, and one
\* without a hit whose score is the LLM confidence
VerdictConfidenceIsMaxWitness ==
  /\ \E k \in 1..Len(results) :
       /\ results[k].pattern_violation
       /\ results[k].llm_confidence = PyNum(50)
       /\ results[k].confidence_score = PyNum(80)
  /\ \E k \in 1..Len(results) :
       /\ ~results[k].pattern_violation
       /\ results[k].confidence_score = PyNum(90)

\* the call of llm_compliance_check of the last evaluated rule
LastLLM == last.outcome.llm

BackendWasCalled == last.evaluated /\ LastLLM.sent # <<>>

\* C3: llm_compliance_check raises nothing and returns a dict that has the
\* keys violation, confidence, evidence and explanation.
AdjudicatorReturnsWellFormedVerdict ==
  last.evaluated =>
    /\ LastLLM.exc = "none"
    /\ LastLLM.value.kind = "dict"
    /\ \A key \in {"violation", "confidence", "evidence", "explanation"} :
         LastLLM.value.d[key].t # "absent"

\* C4: when the backend call throws, llm_compliance_check returns
\* violation False, confidence 0.0, no evidence and the explanation
\* "LLM analysis failed: " followed by the cause.
BackendExceptionBecomesFailedVerdict ==
  (BackendWasCalled /\ last.response.kind = "throw") =>
    /\ LastLLM.exc = "none"
    /\ LastLLM.value.kind = "dict"
    /\ LastLLM.value.d.violation = PyBool(FALSE)
    /\ LastLLM.value.d.confidence = PyNum(0)
    /\ LastLLM.value.d.evidence = PyList(<<>>)
    /\ LastLLM.value.d.explanation =
         PyStr(<<"LLM analysis failed: ">> \o last.response.cause)

\* the Anthropic backend threw on the second rule of a call
BackendExceptionBecomesFailedVerdictWitness ==
  /\ BackendWasCalled
  /\ last.response.kind = "throw"
  /\ LastLLM.sent[1].backend = "anthropic"
  /\ Len(results) = 2

NoBackendGivesNoApiVerdict ==
  (last.evaluated /\ ~openai_client /\ ~anthropic_client) =>
    /\ LastLLM.exc = "none"
    /\ LastLLM.sent = <<>>
    /\ LastLLM.value.kind = "dict"
    /\ LastLLM.value.d.violation = PyBool(FALSE)
    /\ LastLLM.value.d.confidence = PyNum(0)
    /\ LastLLM.value.d.explanation = PyStr(<<"No LLM API configured">>)
    /\ last.outcome.exc = "none"
    /\ results # <<>>
    /\ LET v == results[Len(results)]
       IN  ~v.pattern_violation =>
             /\ v.llm_violation = PyBool(FALSE)
             /\ v.overall_violation = PyBool(FALSE)
             /\ v.confidence_score = PyNum(0)

\* a rule evaluated with no client set on a document no pattern matches
NoBackendGivesNoApiVerdictWitness ==
  /\ last.evaluated
  /\ ~openai_client
  /\ ~anthropic_client
  /\ results # <<>>
  /\ ~results[Len(results)].pattern_violation
  /\ pc = "returned"

(***************************************************************************)
(* Properties of analyze_document (Spec).                                  *)
(***************************************************************************)

\* the rule type and the id of the verdicts of a sequence
VerdictKeysOf(rs) == [i \in 1..Len(rs) |-> <<rs[i].rule_type, rs[i].rule_id>>]

\* the rule type and the id of every rule of the rule sets k.. of the engine
RECURSIVE LoadedRuleKeys(_, _)
LoadedRuleKeys(rs, k) ==
  IF k > Len(rs) THEN <<>>
  ELSE LET listed == IF "rules" \in rs[k].rule_set.has THEN rs[k].rule_set.rules
                     ELSE <<>>
       IN  [i \in 1..Len(listed) |-> <<rs[k].rule_type, listed[i].id>>]
           \o LoadedRuleKeys(rs, k + 1)

\* C15: a call without rule types that returns has gone through every rule
\* type the engine has loaded, as a call given all of them does, and returns
\* one verdict for every rule of every loaded rule set.
DefaultSelectsEveryRuleType ==
  (pc = "returned" /\ frame.rule_types.none) =>
    /\ frame.rule_types.list = [k \in 1..Len(rules) |-> rules[k].rule_type]
    /\ VerdictKeysOf(results) = LoadedRuleKeys(rules, 1)

\* a returned call without rule types on an engine with two rule types
DefaultSelectsEveryRuleTypeWitness ==
  /\ pc = "returned"
  /\ frame.rule_types.none
  /\ Len(results) >= 2
  /\ results[1].rule_type # results[Len(results)].rule_type

\* whether the engine has loaded a rule set under the name
IsLoaded(name) == \E k \in 1..Len(rules) : rules[k].rule_type = name

\* the rule type and the id of the rules of the loaded ones among the
\* requested rule types k.., in the order of the request
RECURSIVE RequestedRuleKeys(_, _)
RequestedRuleKeys(requested, k) ==
  IF k > Len(requested) THEN <<>>
  ELSE (IF IsLoaded(requested[k])
        THEN LoadedRuleKeys(SelectSeq(rules, LAMBDA e : e.rule_type = requested[k]), 1)
        ELSE <<>>)
       \o RequestedRuleKeys(requested, k + 1)

\* the call stands at a requested rule type that is not loaded
AtUnknownRuleType ==
  /\ pc = "rules"
  /\ frame.t <= Len(frame.rule_types.list)
  /\ ~IsLoaded(frame.rule_types.list[frame.t])

\* C16: a requested rule type the engine has not loaded is passed over: the
\* step at it raises nothing, adds no verdict and keeps the verdicts so far,
\* and the call goes on with the next rule type; a call that returns holds
\* exactly the verdicts of the rules of the loaded requested rule types.
UnknownRuleTypeIsSkipped ==
  /\ [][AtUnknownRuleType =>
          /\ pc' = "rules"
          /\ results' = results
          /\ frame'.t = frame.t + 1
          /\ frame'.exc = "none"]_vars
  /\ [](pc = "returned" =>
          VerdictKeysOf(results) = RequestedRuleKeys(frame.rule_types.list, 1))

\* a returned call that was given an unknown rule type between two loaded
\* ones, each with a verdict
UnknownRuleTypeIsSkippedWitness ==
  /\ pc = "returned"
  /\ \E k \in 2..(Len(frame.rule_types.list) - 1) :
       /\ ~IsLoaded(frame.rule_types.list[k])
       /\ \E i \in 1..Len(results) : results[i].rule_type = frame.rule_types.list[k - 1]
       /\ \E i \in 1..Len(results) : results[i].rule_type = frame.rule_types.list[k + 1]

\* C17: whatever the backend did on a rule (an exception, a text that is not
\* the expected JSON), the evaluation of the rule does not abort the call: the
\* call goes on, with the verdict of that rule appended to the results.
RuleFailureDoesNotAbort ==
  last.evaluated =>
    /\ pc # "raised"
    /\ results # <<>>
    /\ results[Len(results)] = last.outcome.verdict

\* the exceptions of collection.add
IndexExceptions == {"BackendFailure", "DuplicateIDError"}

\* C18: a failure of the index (collection.add raising, for the embedding or
\* for the store) does not end analyze_document with an exception.
IndexFailureDoesNotRaise == ~(pc = "raised" /\ frame.exc \in IndexExceptions)

\* C19: analyze_document never raises, whatever the content and whatever the
\* backend answered, and generate_compliance_report gives a report with a
\* status and a summary for the results of every call that returned.
AnalysisAndReportAreTotal ==
  /\ pc # "raised"
  /\ reporter.pc = "return" =>
       /\ reporter.results = results
       /\ {"status", "summary"} \subseteq reporter.report.has
       /\ reporter.report.status \in {"No violations found", "Analysis Complete"}

\* the report half of C19: every call that returned has a report
ReportIsTotal ==
  reporter.pc = "return" =>
    /\ reporter.results = results
    /\ {"status", "summary"} \subseteq reporter.report.has
    /\ reporter.report.status \in {"No violations found", "Analysis Complete"}

\* the backends that received the prompt of the last evaluation
LastSent == last.outcome.llm.sent

\* C26: a call of llm_compliance_check sends its prompt to at most one
\* backend, to exactly one whenever a client is configured (to none
\* otherwise), and only to a backend whose client is configured.
DispatchesToOneBackend ==
  last.evaluated =>
    /\ Len(LastSent) <= 1
    /\ (openai_client \/ anthropic_client) <=> Len(LastSent) = 1
    /\ \A k \in 1..Len(LastSent) :
         /\ LastSent[k].backend \in {"openai", "anthropic"}
         /\ LastSent[k].backend = "openai" => openai_client
         /\ LastSent[k].backend = "anthropic" => anthropic_client

\* both clients configured and the one backend that got the prompt threw
DispatchesToOneBackendWitness ==
  /\ last.evaluated
  /\ openai_client
  /\ anthropic_client
  /\ last.response.kind = "throw"
  /\ Len(LastSent) = 1
  /\ LastSent[1].backend = "openai"

\* only the Anthropic client configured, and it got the prompt
AnthropicAloneIsUsed ==
  /\ last.evaluated
  /\ ~openai_client
  /\ anthropic_client
  /\ Len(LastSent) = 1
  /\ LastSent[1].backend = "anthropic"

\* the rules that come before rule number r of requested rule type number
\* t, in the order of the request and then of the rule set
RuleKeysBefore(t, r) ==
  LET requested == frame.rule_types.list
      current   == IF t <= Len(requested)
                   THEN RequestedRuleKeys(<<requested[t]>>, 1) ELSE <<>>
  IN  RequestedRuleKeys(SubSeq(requested, 1, t - 1), 1)
      \o SubSeq(current, 1, Min(r - 1, Len(current)))

\* C27: the rules of a call are evaluated one after the other, in the order
\* of the requested rule types and then of the rules of each, without
\* retries: the verdicts so far are always those of the rules before the
\* rule the call stands at, in that order; an evaluation sends at most one
\* prompt and either appends its verdict and moves to the next rule or
\* raises; and the call never moves back to an earlier rule.
RulesEvaluatedInOrderOnce ==
  /\ [](pc = "rules" => VerdictKeysOf(results) = RuleKeysBefore(frame.t, frame.r))
  /\ [][(pc = "rules" /\ last' # last) =>
          /\ Len(last'.outcome.llm.sent) <= 1
          /\ last'.rule_type = frame.rule_types.list[frame.t]
          /\ last'.rule = rules_of(rules, last'.rule_type)[frame.r]
          /\ \/ pc' = "raised" /\ results' = results
             \/ /\ pc' = "rules"
                /\ results' = Append(results, last'.outcome.verdict)
                /\ frame'.t = frame.t
                /\ frame'.r = frame.r + 1]_vars
  /\ [][(pc = "rules" /\ pc' = "rules") =>
          \/ frame'.t > frame.t
          \/ frame'.t = frame.t /\ frame'.r >= frame.r]_vars

\* a returned call whose verdicts are those of two rule types, the last one
\* the outcome of the last evaluation
RulesEvaluatedInOrderOnceWitness ==
  /\ pc = "returned"
  /\ Len(results) >= 2
  /\ results[1].rule_type # results[Len(results)].rule_type
  /\ last.evaluated
  /\ results[Len(results)] = last.outcome.verdict
  /\ Len(LastSent) = 1

\* a step of the call that appends a verdict
AppendsVerdict == pc = "rules" /\ Len(results') = Len(results) + 1

\* C22: the index never enters a verdict: the prompt the backend receives
\* is made of the document and the rule alone, and the overall_violation and
\* the confidence_score of every verdict a call appends are determined by the
\* pattern check of the document and the answer to that prompt, so two runs
\* that differ in the contents of the index alone give the same two values;
\* and evaluating the rules leaves the index as it is.
IndexNeverEntersVerdict ==
  [][AppendsVerdict =>
       LET v       == results'[Len(results')]
           rule    == last'.rule
           pattern == check_pattern_compliance(frame.content, rule)
           llm     == last'.outcome.llm
       IN  /\ \A k \in 1..Len(llm.sent) :
                llm.sent[k].prompt = build_prompt(frame.content, rule)
           /\ v.overall_violation
                = py_or(PyBool(pattern.hit),
                        dict_get(llm.value.d, "violation", PyBool(FALSE)))
           /\ v.confidence_score
                = py_max(PyNum(IF pattern.hit THEN PatternFloor ELSE 0),
                         dict_get(llm.value.d, "confidence", PyNum(0)))
           /\ collection' = collection]_vars

\* a verdict without a pattern hit computed over an index that holds a chunk,
\* and one computed over an empty index
IndexNeverEntersVerdictWitness ==
  /\ last.evaluated
  /\ pc = "rules"
  /\ results # <<>>
  /\ ~results[Len(results)].pattern_violation
  /\ collection # {}

\* the rule types of the call the engine has rules for
EvaluatedRuleTypes ==
  {t \in 1..Len(frame.rule_types.list) : rules_has(rules, frame.rule_types.list[t])}

\* C23: a call indexes its document once, not once per rule: when indexing
\* is over the call has made one index write per chunk of the document, and
\* no step of the rule loops writes to the index, whatever the number of rule
\* types and rules evaluated (none included).
IndexingOncePerCall ==
  /\ [](pc \in {"rules", "returned"} =>
          frame.i = Len(chunk_text(frame.content, ChunkSize, ChunkOverlap)))
  /\ [][pc = "rules" => frame'.i = frame.i /\ collection' = collection]_vars

\* a call that returned two verdicts and wrote the one chunk of its document
IndexingOncePerCallWitness ==
  /\ pc = "returned"
  /\ Len(results) = 2
  /\ Len(frame.chunks) = 1
  /\ frame.i = 1
  /\ Cardinality(collection) = 1

\* a call that evaluated no rule at all and wrote the one chunk of its document
IndexingWithoutRules ==
  /\ pc = "returned"
  /\ EvaluatedRuleTypes = {}
  /\ results = <<>>
  /\ frame.i = 1
  /\ Cardinality(collection) = 1

\* the verdicts without the one at position i
RemoveAt(rs, i) == SubSeq(rs, 1, i - 1) \o SubSeq(rs, i + 1, Len(rs))

\* x <= y for two floats, none of them negative
FloatLeq(x, y) ==
  \/ x.zero
  \/ /\ ~y.zero
     /\ \/ x.e < y.e
        \/ /\ x.e = y.e
           /\ \/ x.m = y.m
              \/ \E i \in 1..MantissaBits :
                   /\ x.m[i] < y.m[i]
                   /\ \A j \in 1..(i - 1) : x.m[j] = y.m[j]

\* C29: every verdict with a pattern hit that analyze_document returned is
\* counted by the report of the call in total_violations and in
\* high_confidence_violations (without it both counts are one lower; its
\* confidence is above 0.7), and in the report high_confidence_violations
\* <= total_violations <= total_checks and 0 <= compliance_score <= 100.
PatternHitsAreCounted ==
  (reporter.pc = "return" /\ reporter.results # <<>>) =>
    LET rs      == reporter.results
        summary == reporter.report.summary
    IN  /\ rs = results
        /\ \A i \in 1..Len(rs) :
             rs[i].pattern_violation =>
               /\ rs[i].confidence_score.t \in {"num", "bool"}
               /\ as_number(rs[i].confidence_score) > 70
               /\ Cardinality(violation_rows(RemoveAt(rs, i)))
                    = summary.total_violations - 1
               /\ Cardinality(high_confidence_rows(RemoveAt(rs, i)))
                    = summary.high_confidence_violations - 1
        /\ 0 <= summary.high_confidence_violations
        /\ summary.high_confidence_violations <= summary.total_violations
        /\ summary.total_violations <= summary.total_checks
        /\ FloatLeq(FloatZero, summary.compliance_score)
        /\ FloatLeq(summary.compliance_score, float_div(100, 1))

\* the report of a call that returned a verdict with a pattern hit at the
\* floor of 0.8 and one without
PatternHitsAreCountedWitness ==
  /\ reporter.pc = "return"
  /\ Len(reporter.results) = 2
  /\ \E i \in 1..2 :
       /\ reporter.results[i].pattern_violation
       /\ reporter.results[i].confidence_score = PyNum(PatternFloor)
  /\ reporter.report.summary.total_violations = 1
  /\ reporter.report.summary.high_confidence_violations = 1
  /\ ~reporter.report.summary.compliance_score.zero

(***************************************************************************)
(* Properties of generate_compliance_report (SpecReport).                  *)
(***************************************************************************)

\* C12: the report of an empty sequence of verdicts is the status "No
\* violations found" with an empty summary: it has no other key, and no
\* score is computed.
EmptyReportHasNoSummary ==
  (reporter.pc = "return" /\ reporter.results = <<>>) =>
    /\ reporter.report.has = {"status", "summary"}
    /\ reporter.report.status = "No violations found"
    /\ reporter.report.summary.has = {}

\* a report made of no verdict
EmptyReportHasNoSummaryWitness ==
  /\ reporter.pc = "return"
  /\ reporter.results = <<>>
  /\ reporter.report.status = "No violations found"

\* a verdict whose overall_violation is true: the boolean, or the number 1 that
\* Python holds equal to it
OverallViolationIsTrue(v) == v.overall_violation \in {PyBool(TRUE), PyNum(100)}

ViolatingVerdicts(rs) == {i \in 1..Len(rs) : OverallViolationIsTrue(rs[i])}

\* C13: the report of N >= 1 verdicts of which V have overall_violation true
\* has total_checks = N, total_violations = V and compliance_score equal to
\* 100*(N-V)/N.
ReportCountsAndScore ==
  (reporter.pc = "return" /\ reporter.results # <<>>) =>
    LET N == Len(reporter.results)
        V == Cardinality(ViolatingVerdicts(reporter.results))
    IN  /\ reporter.report.summary.total_checks = N
        /\ reporter.report.summary.total_violations = V
        /\ reporter.report.summary.compliance_score = float_div(100 * (N - V), N)

\* the counts of C13 alone
ReportCounts ==
  (reporter.pc = "return" /\ reporter.results # <<>>) =>
    /\ reporter.report.summary.total_checks = Len(reporter.results)
    /\ reporter.report.summary.total_violations
         = Cardinality(ViolatingVerdicts(reporter.results))

RECURSIVE SumOf(_)
SumOf(f) ==
  IF DOMAIN f = {} THEN 0
  ELSE LET k == CHOOSE x \in DOMAIN f : TRUE
       IN  f[k] + SumOf([x \in DOMAIN f \ {k} |-> f[x]])

\* the mapping that groups the violating verdicts of rs by the value of field
GroupsExactly(mapping, rs, field) ==
  /\ DOMAIN mapping = {rs[i][field] : i \in ViolatingVerdicts(rs)}
  /\ \A k \in DOMAIN mapping :
       /\ mapping[k] = Cardinality({i \in ViolatingVerdicts(rs) : rs[i][field] = k})
       /\ mapping[k] >= 1

\* C14: in the report of a non-empty sequence of verdicts the breakdowns by
\* rule type (framework) and by severity have one key per value that some
\* violating verdict carries, the count of a key is the number of violating
\* verdicts with exactly that value, no key has the count zero, and the
\* counts of each breakdown add up to total_violations.
BreakdownsGroupViolations ==
  (reporter.pc = "return" /\ reporter.results # <<>>) =>
    LET s == reporter.report.summary
    IN  /\ GroupsExactly(s.violations_by_type, reporter.results, "rule_type")
        /\ GroupsExactly(s.violations_by_severity, reporter.results, "severity")
        /\ SumOf(s.violations_by_type) = s.total_violations
        /\ SumOf(s.violations_by_severity) = s.total_violations

\* a report with violations of two severities and with a verdict of a rule
\* type no violation has
BreakdownsGroupViolationsWitness ==
  /\ reporter.pc = "return"
  /\ reporter.results # <<>>
  /\ reporter.report.summary.total_violations >= 2
  /\ Cardinality(DOMAIN reporter.report.summary.violations_by_severity) = 2
  /\ \E i \in 1..Len(reporter.results) :
       reporter.results[i].rule_type
         \notin DOMAIN reporter.report.summary.violations_by_type

(***************************************************************************)
(* Properties of load_all_rules (SpecLoad).                                *)
(***************************************************************************)

RequiredKeys == {"id", "name", "description"}

\* the rules of the rule sets loaded so far
LoadedRules ==
  UNION {Range(loader.rules[k].rule_set.rules) : k \in 1..Len(loader.rules)}

\* a rules file the call has read holds a rule without a required key
HasReadRuleLackingKey ==
  \E j \in 1..(loader.k - 1) :
     /\ loader.dir[j].is_rules_json
     /\ loader.dir[j].parses
     /\ \E rule \in Range(loader.dir[j].json.rules) : ~(RequiredKeys \subseteq rule.has)

\* C20: loading fails with RuleLoadError when a rule of a rules file lacks
\* id, name or description: the call does not go on past such a file, and no
\* rule set it keeps or returns holds a rule without one of the three keys.
RuleLackingKeyFailsLoad ==
  /\ loader.pc \in {"for", "return"} => ~HasReadRuleLackingKey
  /\ loader.pc # "unused" =>
       \A rule \in LoadedRules : RequiredKeys \subseteq rule.has

\* a rules file that is JSON and whose rules all have the required keys
IsValidRuleFile(file) ==
  /\ file.is_rules_json
  /\ file.parses
  /\ \A rule \in Range(file.json.rules) : RequiredKeys \subseteq rule.has

\* the rule set of the file is available under its rule type
IsAvailable(file) ==
  \E k \in 1..Len(loader.rules) :
     /\ loader.rules[k].rule_type = upper_stem(file.stem)
     /\ loader.rules[k].rule_set = file.json

\* C21: when a load is over, however it ended, every valid rules file of the
\* directory is available under its rule type, and a malformed one (not JSON,
\* or with a rule that lacks id, name or description) is not.
MalformedFileIsFatalForItselfOnly ==
  loader.pc \in {"return", "raised"} =>
    \A j \in 1..Len(loader.dir) :
       loader.dir[j].is_rules_json =>
         (IsValidRuleFile(loader.dir[j]) <=> IsAvailable(loader.dir[j]))

(***************************************************************************)
(* Properties of add_document_to_vector_db under concurrent callers        *)
(* (SpecIndex).                                                            *)
(***************************************************************************)
\* the document ids of all calls made so far
IndexedIds == UNION {Range(indexers[c].ids) : c \in Callers}

\* no two calls made so far were given the same document id
DocumentIdsDistinct == Cardinality(IndexedIds) = runs_of(indexers, Callers)

\* what the collection holds of the document doc_id: chunk numbers and chunks
StoredChunks(doc_id) ==
  {<<e.metadata.chunk_id, e.document>> :
     e \in {x \in collection : x.metadata.doc_id = doc_id}}

\* the first n chunks of a call, numbered from 0
WrittenChunks(chunks, n) == {<<i, chunks[i + 1]>> : i \in 0..(n - 1)}

\* C24: index writes for different documents do not interfere: as long as
\* the calls were given distinct document ids, under every interleaving the
\* keys of entries of different documents differ, and what the collection
\* holds of each caller's document is exactly the chunks that caller has
\* written so far, all of them once the call is done, as in a run alone.
DistinctDocumentsDoNotInterfere ==
  DocumentIdsDistinct =>
    /\ \A e1, e2 \in collection :
         e1.metadata.doc_id # e2.metadata.doc_id => e1.id # e2.id
    /\ \A c \in Callers :
         indexers[c].pc # "idle" =>
           StoredChunks(indexers[c].doc_id)
             = WrittenChunks(indexers[c].chunks, indexers[c].i)
    /\ \A c \in Callers :
         indexers[c].pc = "done" => indexers[c].i = Len(indexers[c].chunks)

\* two callers, each half way through a document of two chunks
DistinctDocumentsDoNotInterfereWitness ==
  /\ indexers["a"].doc_id # indexers["b"].doc_id
  /\ \A c \in Callers :
       /\ indexers[c].pc = "for"
       /\ Len(indexers[c].chunks) = 2
       /\ indexers[c].i = 1
  /\ Cardinality(collection) = 2

\* two callers done with documents of two chunks, four entries stored
InterleavedCallsDone ==
  /\ indexers["a"].doc_id # indexers["b"].doc_id
  /\ \A c \in Callers : indexers[c].pc = "done" /\ Len(indexers[c].chunks) = 2
  /\ Cardinality(collection) = 4

\* C25: indexing a document id again appends: once two calls on the same
\* document id are done, the collection holds the chunks both of them wrote,
\* and still holds every entry of the first as it was.
ReindexingAppends ==
  \A c1, c2 \in Callers :
    (/\ c1 # c2
     /\ indexers[c1].pc = "done"
     /\ indexers[c2].pc = "done"
     /\ indexers[c1].doc_id = indexers[c2].doc_id) =>
       Cardinality({e \in collection : e.metadata.doc_id = indexers[c1].doc_id})
         = Len(indexers[c1].chunks) + Len(indexers[c2].chunks)

\* an entry, once stored, is neither deleted nor overwritten
StoredEntriesStay == [][collection \subseteq collection']_vars

(***************************************************************************)
(* Properties of the prompt of llm_compliance_check (SpecPrompt).          *)
(***************************************************************************)
\* two documents have the same first n characters
AgreeOnFirst(n, c1, c2) ==
  /\ Min(Len(c1), n) = Min(Len(c2), n)
  /\ \A i \in 1..Min(Len(c1), n) : c1[i] = c2[i]

\* the part of a prompt between the line "Document Content:" and the text
\* that follows the document
EmbeddedContent(prompt) ==
  LET from == CHOOSE k \in 1..Len(prompt) : prompt[k] = "Document Content: "
      to   == CHOOSE k \in 1..Len(prompt) :
                prompt[k] = "  # Limit content to avoid token limits"
  IN  SubSeq(prompt, from + 1, to - 1)

\* C28: the prompt embeds the first PromptLimit = 3000 characters of the
\* document: two documents that agree on their first 3000 characters are
\* sent as the same prompt for the same rule, a document of at most 3000
\* characters is embedded whole, and of a longer one exactly the first 3000.
PromptEmbedsBoundedPrefix ==
  prompter.pc = "return" =>
    LET p1 == prompter.first_sent[1].prompt
        p2 == prompter.second_sent[1].prompt
    IN  /\ AgreeOnFirst(3000, prompter.first, prompter.second) => p1 = p2
        /\ Len(prompter.first) <= 3000 => EmbeddedContent(p1) = prompter.first
        /\ Len(prompter.first) > 3000 =>
             /\ Len(EmbeddedContent(p1)) = 3000
             /\ AgreeOnFirst(3000, EmbeddedContent(p1), prompter.first)

\* two documents longer than the limit that differ after it, sent as one
\* prompt
PromptEmbedsBoundedPrefixWitness ==
  /\ prompter.pc = "return"
  /\ Len(prompter.first) > PromptLimit
  /\ Len(prompter.second) > PromptLimit
  /\ prompter.first # prompter.second
  /\ prompter.first_sent = prompter.second_sent
  /\ Len(prompter.first_sent) = 1

\* a document of exactly the limit, embedded whole
DocumentAtLimitEmbeddedWhole ==
  /\ prompter.pc = "return"
  /\ Len(prompter.first) = PromptLimit
  /\ EmbeddedContent(prompter.first_sent[1].prompt) = prompter.first

====
